---- MODULE Spec2Model ----
(***************************************************************************)
(* State-machine model of the slime simulation engine.                     *)
(*                                                                         *)
(*   Spec    the 3D engine of src/sim.rs (SlimeSim with Array3D medium,    *)
(*           quaternion heading, origin and age)                           *)
(*                                                                         *)
(* f32 values are modelled in fixed point: the integer n stands for the    *)
(* real n / UNIT, and every product or quotient is rounded to the nearest  *)
(* representable value.  Values that may be non-finite (dt, positions) are *)
(* records [k, v] with k one of "fin", "nan", "pinf", "ninf".  Angles are  *)
(* whole quarter turns, so every rotation is a signed permutation matrix.  *)
(***************************************************************************)
EXTENDS Integers, Sequences, FiniteSets, TLC

VARIABLES front, back, factory, pc, idx, cfg, dt, ticks, shown, probe, born, hist,
          record

vars == <<front, back, factory, pc, idx, cfg, dt, ticks, shown, probe, born, hist, record>>

(* ------------------------------ bounds -------------------------------- *)

\* fixed-point resolution: n stands for n / UNIT
UNIT == 4
\* extent of the grid handed to SlimeSim::new
Width == 2
Height == 2
Length == 1
\* n_particles handed to SlimeSim::new
NParticles == 2
\* number of step calls explored
MaxTicks == 2
\* number of distinct outcomes of the random draws of one SlimeFactory::slime call
RngDraws == 4

(* ------------------------------ f32 ----------------------------------- *)

F(n) == [k |-> "fin", v |-> n]
NaN == [k |-> "nan", v |-> 0]
PInf == [k |-> "pinf", v |-> 0]
NInf == [k |-> "ninf", v |-> 0]

is_finite(x) == x.k = "fin"

Sgn(x) == CASE x.k = "pinf" -> 1
            [] x.k = "ninf" -> -1
            [] OTHER -> IF x.v > 0 THEN 1 ELSE IF x.v < 0 THEN -1 ELSE 0

\* n / d rounded to the nearest integer (d > 0)
RoundDiv(n, d) == (2 * n + d) \div (2 * d)

\* product of two fixed-point numbers
Mul(a, b) == RoundDiv(a * b, UNIT)

FMul(a, b) ==
    IF a.k = "nan" \/ b.k = "nan" THEN NaN
    ELSE IF is_finite(a) /\ is_finite(b) THEN F(Mul(a.v, b.v))
    ELSE IF Sgn(a) * Sgn(b) = 0 THEN NaN
    ELSE IF Sgn(a) * Sgn(b) > 0 THEN PInf ELSE NInf

FAdd(a, b) ==
    IF a.k = "nan" \/ b.k = "nan" THEN NaN
    ELSE IF is_finite(a) /\ is_finite(b) THEN F(a.v + b.v)
    ELSE IF is_finite(a) THEN b
    ELSE IF is_finite(b) THEN a
    ELSE IF a.k = b.k THEN a ELSE NaN

\* Option<T>
None == <<>>
Some(v) == <<v>>

(* --------------------------- rotations -------------------------------- *)

CosQ(q) == <<1, 0, -1, 0>>[(q % 4) + 1]
SinQ(q) == <<0, 1, 0, -1>>[(q % 4) + 1]

\* a rotation whose angle is not finite: every component is NaN
NaNRot == <<<<0, 0, 0>>, <<0, 0, 0>>, <<0, 0, 0>>>>

UnitQuaternion_identity == <<<<1, 0, 0>>, <<0, 1, 0>>, <<0, 0, 1>>>>

MatMul(a, b) ==
    IF a = NaNRot \/ b = NaNRot THEN NaNRot
    ELSE [r \in 1..3 |-> [c \in 1..3 |->
            a[r][1] * b[1][c] + a[r][2] * b[2][c] + a[r][3] * b[3][c]]]

inverse(a) == [r \in 1..3 |-> [c \in 1..3 |-> a[c][r]]]

\* rotation about the x axis (particle_yaw_axis) by q quarter turns
RotX(q) == <<<<1, 0, 0>>, <<0, CosQ(q), -SinQ(q)>>, <<0, SinQ(q), CosQ(q)>>>>
\* rotation about the y axis (particle_pitch_axis) by q quarter turns
RotY(q) == <<<<CosQ(q), 0, SinQ(q)>>, <<0, 1, 0>>, <<-SinQ(q), 0, CosQ(q)>>>>

\* UnitQuaternion::from_axis_angle with an f32 angle given in quarter turns
from_axis_angle(axis, angle) ==
    IF ~is_finite(angle) THEN NaNRot
    ELSE IF axis = "x" THEN RotX(angle.v \div UNIT) ELSE RotY(angle.v \div UNIT)

\* UnitQuaternion::from_euler_angles(roll, pitch, 0): roll about x, then pitch about y
from_euler_angles(roll, pitch) == MatMul(RotY(pitch), RotX(roll))

\* rot * particle_tip, with particle_tip = Vector3::z()
Tip(rot) ==
    IF rot = NaNRot THEN <<NaN, NaN, NaN>>
    ELSE [a \in 1..3 |-> F(rot[a][3] * UNIT)]

VScale(p, s) == [a \in DOMAIN p |-> FMul(p[a], s)]
VAdd(p, q) == [a \in DOMAIN p |-> FAdd(p[a], q[a])]

(* ------------------------------ arrays -------------------------------- *)

Cells(w, h, l) == (0..(w - 1)) \X (0..(h - 1)) \X (0..(l - 1))

\* Array3D::new(width, height, length): every cell holds f32::default()
Array3D_new(w, h, l) ==
    [width |-> w, height |-> h, length |-> l, data |-> [p \in Cells(w, h, l) |-> 0]]

bounds_isize(x, w) == IF x >= 0 /\ x < w THEN Some(x) ELSE None

\* Some(arr[pos]) once every `?` of sample_array_isize has passed
at_index(arr, bx, by, bz) ==
    IF bx = None \/ by = None \/ bz = None THEN None
    ELSE Some(arr.data[<<bx[1], by[1], bz[1]>>])

sample_array_isize(arr, pos) ==
    at_index(arr, bounds_isize(pos[1], arr.width), bounds_isize(pos[2], arr.height),
             bounds_isize(pos[3], arr.length))

\* `x as usize`: truncation toward zero, saturating (negative and NaN give 0,
\* +inf gives the largest usize, here the largest 32-bit integer)
as_usize(x) ==
    CASE x.k = "nan" -> 0
      [] x.k = "ninf" -> 0
      [] x.k = "pinf" -> 2147483647
      [] OTHER -> IF x.v < 0 THEN 0 ELSE x.v \div UNIT

\* the bounds check without its lower bound
f32_any(x) == TRUE

\* x >= 0. and x < w as f32 on f32 values (false on NaN)
f32_ge0(x) == (is_finite(x) /\ x.v >= 0) \/ x.k = "pinf"
f32_lt(x, w) == (is_finite(x) /\ x.v < w * UNIT) \/ x.k = "ninf"

bounds_f32(x, w) ==
    IF is_finite(x) /\ f32_ge0(x) /\ f32_lt(x, w) THEN Some(as_usize(x)) ELSE None

\* Some((x, y, z)) once every `?` of sample_array_vect has passed
index_of(bx, by, bz) ==
    IF bx = None \/ by = None \/ bz = None THEN None
    ELSE Some(<<bx[1], by[1], bz[1]>>)

sample_array_vect(arr, v) ==
    index_of(bounds_f32(v[1], arr.width), bounds_f32(v[2], arr.height),
             bounds_f32(v[3], arr.length))

mix(a, b, t) == Mul(UNIT - t, a) + Mul(t, b)

(* ------------------------------ medium -------------------------------- *)

off == << <<0, 0, 0>>, <<1, 0, 0>>, <<-1, 0, 0>>, <<0, 1, 0>>, <<0, -1, 0>>,
          <<0, 0, 1>>, <<0, 0, -1>> >>

\* (j + x, i + y, k + z) for the offset o = (i, j, k)
sample_pos(o, pos) == <<o[2] + pos[1], o[1] + pos[2], o[3] + pos[3]>>

\* sum += v; n_parts += 1, on acc = <<sum, n_parts>>
accumulate(acc, v) == IF v # None THEN <<acc[1] + v[1], acc[2] + 1>> ELSE acc

\* the accumulation loop over `off`: <<sum, n_parts>> after the first n offsets
RECURSIVE neighbourhood(_, _, _)
neighbourhood(arr, pos, n) ==
    IF n = 0 THEN <<0, 0>>
    ELSE accumulate(neighbourhood(arr, pos, n - 1),
                    sample_array_isize(arr, sample_pos(off[n], pos)))

\* sum / n_parts as f32
average(acc) == RoundDiv(acc[1], acc[2])

\* (1. + cfg.decay) in place of (1. - cfg.decay)
decayed_growing(arr, c, pos) ==
    Mul(UNIT + c.decay,
        mix(arr.data[pos], average(neighbourhood(arr, pos, Len(off))), c.diffusion))

\* (cfg.decay - 1.) in place of (1. - cfg.decay)
decayed_negated(arr, c, pos) ==
    Mul(c.decay - UNIT,
        mix(arr.data[pos], average(neighbourhood(arr, pos, Len(off))), c.diffusion))

\* the value step_medium writes to back.medium[pos]
decayed(arr, c, pos) ==
    Mul(UNIT - c.decay,
        mix(arr.data[pos], average(neighbourhood(arr, pos, Len(off))), c.diffusion))

\* a relaxation that skips the cells whose front value is zero
step_medium_sparse(self, c) ==
    [self EXCEPT !.back.medium.data =
        [pos \in Cells(self.front.medium.width, self.front.medium.height,
                       self.front.medium.length) |->
            IF self.front.medium.data[pos] = 0 THEN self.back.medium.data[pos]
            ELSE decayed(self.front.medium, c, pos)]]

\* the relaxation written in place, to the front medium
step_medium_in_place(self, c) ==
    [self EXCEPT !.front.medium.data =
        [pos \in Cells(self.front.medium.width, self.front.medium.height,
                       self.front.medium.length) |-> decayed(self.front.medium, c, pos)]]

\* SlimeSim::step_medium on self = [front, back]
step_medium(self, c) ==
    [self EXCEPT !.back.medium.data =
        [pos \in Cells(self.front.medium.width, self.front.medium.height,
                       self.front.medium.length) |-> decayed(self.front.medium, c, pos)]]

(* ----------------------------- particles ------------------------------ *)

\* Option<f32>::partial_cmp on finite values: None sorts before every Some
partial_cmp(a, b) ==
    CASE a = None /\ b = None -> "Equal"
      [] a = None /\ b # None -> "Less"
      [] a # None /\ b = None -> "Greater"
      [] OTHER -> IF a[1] < b[1] THEN "Less"
                  ELSE IF a[1] > b[1] THEN "Greater" ELSE "Equal"

\* the sample read from the back medium, which the step is writing
map_back(self, p) == IF p = None THEN None ELSE Some(self.back.medium.data[p[1]])

\* .map(|p| self.front.medium[p])
map_front(self, p) == IF p = None THEN None ELSE Some(self.front.medium.data[p[1]])

\* the closure `sample` of step_particles
sample(self, c, part, rot) ==
    map_front(self,
        sample_array_vect(self.back.medium,
            VAdd(part.position,
                 VScale(Tip(MatMul(rot, part.heading)), F(c.sample_dist)))))

\* the match with the two turns exchanged
decide_reversed(lc, cr, turn) ==
    CASE lc = "Greater" /\ cr = "Greater" -> inverse(turn)
      [] lc = "Less" /\ cr = "Less" -> turn
      [] OTHER -> UnitQuaternion_identity

\* match (lc, cr) of rotsample
decide(lc, cr, turn) ==
    CASE lc = "Greater" /\ cr = "Greater" -> turn
      [] lc = "Less" /\ cr = "Less" -> inverse(turn)
      [] OTHER -> UnitQuaternion_identity

\* lines 182-191 of rotsample on the three samples
steer(left, center, right, turn) ==
    decide(partial_cmp(left, center), partial_cmp(center, right), turn)

\* the closure `rotsample` of step_particles
rotsample(self, c, f, sensor, turn) ==
    steer(sample(self, c, f, sensor), sample(self, c, f, UnitQuaternion_identity),
          sample(self, c, f, inverse(sensor)), turn)

\* cfg.deposit_rate * dt (finite whenever a position passed the bounds check)
deposit(c, d) == FMul(F(c.deposit_rate), d).v

\* lines 200-201: the new position for the integrated heading
advance(c, d, f, heading) ==
    [heading |-> heading,
     position |-> VAdd(f.position, VScale(VScale(Tip(heading), F(c.move_speed)), d))]

\* lines 195-201 of step_particles: the integrated heading and position of f
integrate(self, c, d, f) ==
    advance(c, d, f,
        MatMul(MatMul(rotsample(self, c, f, from_axis_angle("x", F(c.sensor_spread)),
                                from_axis_angle("x", FMul(F(c.turn_speed), d))),
                      rotsample(self, c, f, from_axis_angle("y", F(c.sensor_spread)),
                                from_axis_angle("y", FMul(F(c.turn_speed), d)))),
               f.heading))

\* the move branch with origin taken from the new position
commit_new_origin(self, c, d, i, cand, pos) ==
    [self EXCEPT !.back.medium.data[pos] = @ + deposit(c, d),
                 !.back.slime[i] = [origin |-> cand.position,
                                    position |-> cand.position,
                                    heading |-> cand.heading,
                                    age |-> self.front.slime[i].age + 1]]

\* the move branch of the loop body (lines 208-214)
commit(self, c, d, i, cand, pos) ==
    [self EXCEPT !.back.medium.data[pos] = @ + deposit(c, d),
                 !.back.slime[i] = [origin |-> self.front.slime[i].origin,
                                    position |-> cand.position,
                                    heading |-> cand.heading,
                                    age |-> self.front.slime[i].age + 1]]

\* the respawn branch pushing the fresh particle instead of replacing slot i
respawn_push(self, i, fresh) == [self EXCEPT !.back.slime = Append(@, fresh)]


\* a respawn that also deposits where the new agent appears
respawn_depositing(self, i, fresh) ==
    [self EXCEPT !.back.slime[i] = fresh,
                 !.back.medium.data[sample_array_vect(self.back.medium, fresh.position)[1]] =
                     @ + UNIT]

\* the respawn branch of the loop body (line 216)
respawn(self, i, fresh) == [self EXCEPT !.back.slime[i] = fresh]

\* the loop body without the respawn: an agent that left the grid keeps its
\* new position
resolve_no_respawn(self, c, d, i, cand, pos, fresh) ==
    IF pos # None THEN commit(self, c, d, i, cand, pos[1])
    ELSE [self EXCEPT !.back.slime[i] = [origin |-> self.front.slime[i].origin,
                                         position |-> cand.position,
                                         heading |-> cand.heading,
                                         age |-> self.front.slime[i].age + 1]]

\* lines 207-217: the if let on the bounds check of the new position
resolve(self, c, d, i, cand, pos, fresh) ==
    IF pos # None THEN commit(self, c, d, i, cand, pos[1]) ELSE respawn(self, i, fresh)

(* ------------------------------ factory ------------------------------- *)

\* SlimeFactory::new: the three position ranges [0, extent)
SlimeFactory_new(w, h, l) == [x |-> w, y |-> h, z |-> l]

\* the k-th value a Uniform::new(0.0, w as f32) sample is drawn from: the low end,
\* the largest value below w, the middle
SpawnCoord(w, k) == <<0, w * UNIT - 1, (w * UNIT) \div 2>>[(k % 3) + 1]

\* the rng draws one call of SlimeFactory::slime consumes: x, y, z from
\* Uniform(0, extent), theta from Uniform(0, PI) and rho from Uniform(-PI, PI),
\* the angles in quarter turns
Draws(fac) ==
    { [x |-> SpawnCoord(fac.x, r), y |-> SpawnCoord(fac.y, r + 1),
       z |-> SpawnCoord(fac.z, r + 2), theta |-> r % 2, rho |-> ((r \div 2) % 3) - 1] :
      r \in 0..(RngDraws - 1) }

\* the draw record used where no draw is consumed
NoDraw == [x |-> 0, y |-> 0, z |-> 0, theta |-> 0, rho |-> 0]

SlimeFactory_slime(draw) ==
    [position |-> <<F(draw.x), F(draw.y), F(draw.z)>>,
     origin |-> <<F(draw.x), F(draw.y), F(draw.z)>>,
     heading |-> from_euler_angles(draw.theta, draw.rho), age |-> 0]

(* --------------------------- step arguments --------------------------- *)

\* SlimeConfig; angles in quarter turns, every field in fixed point
SlimeConfig(spread, turn, dec, dep, move, dist, diff) ==
    [sensor_spread |-> spread * UNIT, turn_speed |-> turn * UNIT, decay |-> dec,
     deposit_rate |-> dep, move_speed |-> move, sample_dist |-> dist,
     diffusion |-> diff]

Half == UNIT \div 2
Quarter == UNIT \div 4

\* the (cfg, dt) pairs step is called with
Calls ==
    { [cfg |-> SlimeConfig(1, 1, Quarter, UNIT, Half, UNIT, Half), dt |-> F(UNIT)],
      [cfg |-> SlimeConfig(1, 1, Half, 0, UNIT, UNIT, 0), dt |-> F(UNIT)],
      [cfg |-> SlimeConfig(1, 1, Quarter, 0, Half, UNIT, Half), dt |-> F(UNIT)],
      [cfg |-> SlimeConfig(1, 1, 0, UNIT, Half, UNIT, 2 * UNIT), dt |-> F(UNIT)],
      [cfg |-> SlimeConfig(1, 1, Quarter, UNIT, Half, UNIT, Half), dt |-> PInf],
      [cfg |-> SlimeConfig(1, 1, Quarter, UNIT, 0, UNIT, Half), dt |-> NaN] }

NoCall == [cfg |-> SlimeConfig(0, 0, 0, 0, 0, 0, 0), dt |-> F(0)]

(* --------------------------- specification ---------------------------- *)

\* the fields SlimeSim::new builds from `front`
cloned(fr, fac) == [front |-> fr, back |-> fr, factory |-> fac]

\* SlimeSim::new(width, height, length, n_particles, rng)
SlimeSim_new(w, h, l, n, draws) ==
    cloned([slime |-> [i \in 1..n |-> SlimeFactory_slime(draws[i])],
            medium |-> Array3D_new(w, h, l)],
           SlimeFactory_new(w, h, l))

\* self
Self == [front |-> front, back |-> back]

\* the length of back.slime.iter_mut().zip(&front.slime)
ZipLen(self) ==
    IF Len(self.back.slime) < Len(self.front.slime)
    THEN Len(self.back.slime) ELSE Len(self.front.slime)

\* no bounds check of a new position has been made in this step
NoProbe == [i |-> 0, arg |-> <<F(0), F(0), F(0)>>, res |-> None]

Init ==
    \E draws \in [1..NParticles -> Draws(SlimeFactory_new(Width, Height, Length))] :
    \E sim \in {SlimeSim_new(Width, Height, Length, NParticles, draws)} :
        /\ front = sim.front
        /\ back = sim.back
        /\ factory = sim.factory
        /\ pc = "idle"
        /\ idx = 0
        /\ cfg = NoCall.cfg
        /\ dt = NoCall.dt
        /\ ticks = 0
        /\ shown = [tick |-> 0, frame |-> sim.front]
        /\ probe = NoProbe
        /\ born = [i \in 1..NParticles |->
                      [tick |-> 0, pos |-> sim.front.slime[i].position]]
        /\ hist = [deposit_ok |-> TRUE, decay_ok |-> TRUE, diffusion_ok |-> TRUE]
        /\ record = None

\* SlimeSim::step is entered with a (cfg, dt) of `calls`
Enter(calls) ==
    /\ pc = "idle"
    /\ ticks < MaxTicks
    /\ \E call \in calls :
          /\ cfg' = call.cfg
          /\ dt' = call.dt
          /\ hist' = [deposit_ok |-> hist.deposit_ok /\ call.cfg.deposit_rate >= 0
                                        /\ f32_ge0(call.dt),
                      decay_ok |-> hist.decay_ok /\ call.cfg.decay <= UNIT,
                      diffusion_ok |-> hist.diffusion_ok /\ call.cfg.diffusion >= 0
                                          /\ call.cfg.diffusion <= UNIT]
    /\ pc' = "medium"
    /\ probe' = NoProbe
    /\ UNCHANGED <<front, back, factory, idx, ticks, shown, born>>

\* a step of a driver that keeps no record
StepWith(calls) == Enter(calls) /\ UNCHANGED record

Step == StepWith(Calls)

\* where the loop of step_particles stands after its iteration i
after(self, i) == IF i >= ZipLen(self) THEN "swap" ELSE "particles"

\* self.step_medium(cfg, dt, &mut rng)
StepMedium ==
    /\ pc = "medium"
    /\ \E r \in {step_medium(Self, cfg)} :
          /\ front' = r.front
          /\ back' = r.back
          /\ pc' = after(r, 0)
    /\ idx' = 1
    /\ UNCHANGED <<factory, cfg, dt, ticks, shown, probe, born, hist, record>>

\* one iteration of the loop of self.step_particles(cfg, dt, &mut rng)
StepParticle ==
    /\ pc = "particles"
    /\ \E cand \in {integrate(Self, cfg, dt, front.slime[idx])} :
       \E pos \in {sample_array_vect(back.medium, cand.position)} :
       \E draw \in IF pos = None THEN Draws(factory) ELSE {NoDraw} :
       \E r \in {resolve(Self, cfg, dt, idx, cand, pos, SlimeFactory_slime(draw))} :
          /\ front' = r.front
          /\ back' = r.back
          /\ pc' = after(r, idx)
          /\ probe' = [i |-> idx, arg |-> cand.position, res |-> pos]
          /\ born' = IF pos = None
                     THEN [born EXCEPT ![idx] =
                             [tick |-> ticks + 1, pos |-> r.back.slime[idx].position]]
                     ELSE born
    /\ idx' = idx + 1
    /\ UNCHANGED <<factory, cfg, dt, ticks, shown, hist, record>>

\* a swap of the media alone
swap_medium_only(self) ==
    [front |-> [self.front EXCEPT !.medium = self.back.medium],
     back |-> [self.back EXCEPT !.medium = self.front.medium]]

\* std::mem::swap(&mut self.front, &mut self.back)
swap(self) == [front |-> self.back, back |-> self.front]

Swap ==
    /\ pc = "swap"
    /\ \E r \in {swap(Self)} :
          /\ front' = r.front
          /\ back' = r.back
    /\ pc' = "idle"
    /\ ticks' = ticks + 1
    /\ UNCHANGED <<factory, idx, cfg, dt, shown, probe, born, hist, record>>

\* SlimeSim::frame, called between steps by the viewer and the recorder
Frame ==
    /\ pc = "idle"
    /\ shown' = [tick |-> ticks, frame |-> front]
    /\ UNCHANGED <<front, back, factory, pc, idx, cfg, dt, ticks, probe, born, hist, record>>

Next == Step \/ StepMedium \/ StepParticle \/ Swap \/ Frame

Spec == Init /\ [][Next]_vars

(* ------------------- construction with any extent --------------------- *)

\* rand's Uniform::new(low, high) as SlimeFactory::new calls it: it panics
\* unless low < high
Uniform_new_panics(low, high) == ~(low < high)

\* SlimeFactory::new(width, height, length) panics in one of its Uniform::new
SlimeFactory_new_panics(w, h, l) ==
    \/ Uniform_new_panics(0, w)
    \/ Uniform_new_panics(0, h)
    \/ Uniform_new_panics(0, l)

\* what the variables hold when SlimeSim::new did not return
Unbuilt == [slime |-> <<>>, medium |-> Array3D_new(0, 0, 0)]

\* the state after SlimeSim::new(w, h, l, n, rng) returned `sim`
Built(sim, n) ==
    /\ front = sim.front
    /\ back = sim.back
    /\ factory = sim.factory
    /\ pc = "idle"
    /\ born = [i \in 1..n |-> [tick |-> 0, pos |-> sim.front.slime[i].position]]
    /\ shown = [tick |-> 0, frame |-> sim.front]

\* the state after SlimeSim::new(w, h, l, n, rng) panicked in SlimeFactory::new
Panicked(w, h, l) ==
    /\ front = Unbuilt
    /\ back = Unbuilt
    /\ factory = SlimeFactory_new(w, h, l)
    /\ pc = "panic"
    /\ born = <<>>
    /\ shown = [tick |-> 0, frame |-> Unbuilt]

\* SlimeSim::new called with extents and agent counts that may be zero
InitAnyExtent ==
    \E w \in {0, Width} : \E h \in {0, Height} : \E l \in {0, Length} :
    \E n \in {0, NParticles} :
    \E draws \in [1..n -> Draws(SlimeFactory_new(w, h, l))] :
        /\ IF SlimeFactory_new_panics(w, h, l)
           THEN Panicked(w, h, l)
           ELSE Built(SlimeSim_new(w, h, l, n, draws), n)
        /\ idx = 0
        /\ cfg = NoCall.cfg
        /\ dt = NoCall.dt
        /\ ticks = 0
        /\ probe = NoProbe
        /\ hist = [deposit_ok |-> TRUE, decay_ok |-> TRUE, diffusion_ok |-> TRUE]
        /\ record = None

SpecAnyExtent == InitAnyExtent /\ [][Next]_vars

(* ---------------- the recording driver of src/bin/gui.rs --------------- *)

\* RecordFile::new(width, height)
RecordFile_new(w, h) == [width |-> w, height |-> h, frames |-> <<>>]

\* a recorder that keeps only the latest frame
record_frame_overwrite(rec, sim) ==
    [rec EXCEPT !.frames = <<[slime |-> sim.front.slime]>>]

\* record_frame(record, sim): push a clone of sim.frame().slime
record_frame(rec, sim) ==
    [rec EXCEPT !.frames = Append(@, [slime |-> sim.front.slime])]

\* `if let Some(record) = &mut self.record { record_frame(record, &mut self.sim) }`
recorded(rec, sim) == IF rec = None THEN None ELSE Some(record_frame(rec[1], sim))

\* SlimeApp::init: the engine, and a record when --record is given
InitGui ==
    \E draws \in [1..NParticles -> Draws(SlimeFactory_new(Width, Height, Length))] :
    \E rec \in {None, Some(RecordFile_new(Width, Height))} :
        /\ Built(SlimeSim_new(Width, Height, Length, NParticles, draws), NParticles)
        /\ idx = 0
        /\ cfg = NoCall.cfg
        /\ dt = NoCall.dt
        /\ ticks = 0
        /\ probe = NoProbe
        /\ hist = [deposit_ok |-> TRUE, decay_ok |-> TRUE, diffusion_ok |-> TRUE]
        /\ record = rec

\* one iteration of the steps_per_frame loop of SlimeApp::frame up to the entry
\* of SlimeSim::step
GuiStep == Enter(Calls) /\ record' = recorded(record, Self)

NextGui == GuiStep \/ StepMedium \/ StepParticle \/ Swap \/ Frame

SpecGui == InitGui /\ [][NextGui]_vars

(* ------------- an engine met in the middle of a run -------------------- *)

\* extent of the cubic grid of the engine met in the middle of a run
Side == 3

\* the value a slope g in {-1, 0, 1} gives the k-th of n cells along an axis
Slope(g, k, n) == IF g = 0 THEN 0 ELSE IF g = 1 THEN k ELSE n - 1 - k

\* a front medium left by earlier deposits (whole multiples of a deposit of
\* 1.0): it rises, falls or is flat along each axis as g says
Deposited(w, h, l, g) ==
    [Array3D_new(w, h, l) EXCEPT !.data =
        [p \in Cells(w, h, l) |->
            UNIT * (Slope(g[1], p[1], w) + Slope(g[2], p[2], h) + Slope(g[3], p[3], l))]]

\* where the agent met in the middle of a run stands: in the middle of the
\* grid or of a cell at its low faces
Spots == { <<F(a * UNIT + Half), F(b * UNIT + Half), F(c * UNIT + Half)>> :
           a \in {0, 1}, b \in {0, 1}, c \in {1} }

\* a freshly spawned agent at `spot` with the heading of `draw`
Spawned(spot, draw) ==
    [SlimeFactory_slime(draw) EXCEPT !.position = spot, !.origin = spot]

\* the middle of the grid
Centre == <<F(UNIT + Half), F(UNIT + Half), F(UNIT + Half)>>

\* an engine with two agents, observed before the last step of a run: the
\* front medium holds earlier deposits, the agents have just been spawned (one
\* of them in the middle of the grid), the back buffers hold what the step
\* before read
InitMidRun ==
    \E g \in {-1, 0, 1} \X {-1, 0, 1} \X {-1, 0, 1} :
    \E spot \in Spots :
    \E draw \in Draws(SlimeFactory_new(Side, Side, Side)) :
    \E mate \in {d \in Draws(SlimeFactory_new(Side, Side, Side)) : d.theta = 0} :
        /\ front = [slime |-> <<Spawned(spot, draw), Spawned(Centre, mate)>>,
                    medium |-> Deposited(Side, Side, Side, g)]
        /\ back = [slime |-> <<SlimeFactory_slime(draw), SlimeFactory_slime(mate)>>,
                   medium |-> Array3D_new(Side, Side, Side)]
        /\ factory = SlimeFactory_new(Side, Side, Side)
        /\ pc = "idle"
        /\ born = <<[tick |-> MaxTicks - 1, pos |-> spot],
                    [tick |-> MaxTicks - 1, pos |-> Centre]>>
        /\ shown = [tick |-> MaxTicks - 1, frame |-> front]
        /\ idx = 0
        /\ cfg = NoCall.cfg
        /\ dt = NoCall.dt
        /\ ticks = MaxTicks - 1
        /\ probe = NoProbe
        /\ hist = [deposit_ok |-> TRUE, decay_ok |-> TRUE, diffusion_ok |-> TRUE]
        /\ record = None

SpecMidRun == InitMidRun /\ [][Next]_vars

(* ===================== the 2D engine of src/main.rs ==================== *)

\* extent of the grid handed to the 2D SlimeSim::new
Width2D == 10
Height2D == 10

Cells2D(w, h) == (0..(w - 1)) \X (0..(h - 1))

\* Array2D::new(width, height)
Array2D_new(w, h) == [width |-> w, height |-> h, data |-> [p \in Cells2D(w, h) |-> 0]]

at_index_2d(arr, bx, by) ==
    IF bx = None \/ by = None THEN None ELSE Some(arr.data[<<bx[1], by[1]>>])

sample_array_isize_2d(arr, x, y) ==
    at_index_2d(arr, bounds_isize(x, arr.width), bounds_isize(y, arr.height))

index_of_2d(bx, by) == IF bx = None \/ by = None THEN None ELSE Some(<<bx[1], by[1]>>)

sample_array_vect_2d(arr, v) ==
    index_of_2d(bounds_f32(v[1], arr.width), bounds_f32(v[2], arr.height))

\* the offsets of the centre and its four axis-aligned neighbours only
off_2d_cross == << <<-1, 0>>, <<0, -1>>, <<0, 0>>, <<0, 1>>, <<1, 0>> >>

\* the (i, j) the two nested loops `for i in -1..=1 { for j in -1..=1` run through
off_2d == << <<-1, -1>>, <<-1, 0>>, <<-1, 1>>, <<0, -1>>, <<0, 0>>, <<0, 1>>,
             <<1, -1>>, <<1, 0>>, <<1, 1>> >>

\* <<sum, n_parts>> after the first n iterations of the nested loops
RECURSIVE neighbourhood_2d(_, _, _)
neighbourhood_2d(arr, pos, n) ==
    IF n = 0 THEN <<0, 0>>
    ELSE accumulate(neighbourhood_2d(arr, pos, n - 1),
                    sample_array_isize_2d(arr, off_2d[n][2] + pos[1],
                                          off_2d[n][1] + pos[2]))

\* the value diffuse_step writes to back.medium[pos]
decayed_2d(arr, c, d, pos) ==
    Mul(UNIT - Mul(c.decay, d.v),
        mix(arr.data[pos], average(neighbourhood_2d(arr, pos, Len(off_2d))),
            Mul(c.diffusion, d.v)))

\* SlimeSim::diffuse_step on self = [front, back]
diffuse_step(self, c, d) ==
    [self EXCEPT !.back.medium.data =
        [pos \in Cells2D(self.front.medium.width, self.front.medium.height) |->
            decayed_2d(self.front.medium, c, d, pos)]]

\* a Rotation2 is its angle in quarter turns; Rotation2 * Vector2
rotate(q, v) == <<CosQ(q) * v[1] - SinQ(q) * v[2], SinQ(q) * v[1] + CosQ(q) * v[2]>>

\* Rotation2::from_scaled_axis(Vector1::new(rate) * dt)
from_scaled_axis(rate, d) == (Mul(rate, d.v) \div UNIT) % 4

\* Rotation2::inverse
inverse_2d(q) == (4 - q) % 4

\* unit_circ(a) for a in quarter turns
unit_circ(a) == <<CosQ(a), SinQ(a)>>

\* a Vector2 of whole components as f32 values
VecF(v) == [a \in DOMAIN v |-> F(v[a] * UNIT)]

\* one of the three samples of particle_step: the front value under the sensor
\* rotated by r
sense(self, c, f, r) ==
    map_front(self,
        sample_array_vect_2d(self.back.medium,
            VAdd(f.position, VScale(VecF(rotate(r, f.heading)), F(c.sample_dist)))))

\* the match with every tie turning left
decide_2d_ties_left(lc, cr, left_turn_rate, right_turn_rate) ==
    CASE lc = "Less" /\ cr = "Less" -> right_turn_rate
      [] lc = "Less" /\ cr = "Greater" -> 0
      [] OTHER -> left_turn_rate

\* match (lc, cr) of particle_step
decide_2d(lc, cr, left_turn_rate, right_turn_rate) ==
    CASE lc = "Greater" /\ cr = "Greater" -> left_turn_rate
      [] lc = "Less" /\ cr = "Less" -> right_turn_rate
      [] lc = "Less" /\ cr = "Greater" -> 0
      [] OTHER -> 0

steer_2d(left, center, right, left_turn_rate, right_turn_rate) ==
    decide_2d(partial_cmp(left, center), partial_cmp(center, right),
              left_turn_rate, right_turn_rate)

\* lines 219-239 of particle_step: the rotation chosen for f
rotation_2d(self, c, d, f) ==
    steer_2d(sense(self, c, f, from_scaled_axis(c.sensor_spread, d)),
             sense(self, c, f, 0),
             sense(self, c, f, inverse_2d(from_scaled_axis(c.sensor_spread, d))),
             from_scaled_axis(c.turn_speed, d),
             inverse_2d(from_scaled_axis(c.turn_speed, d)))

\* line 245: the new position for the integrated heading
advance_2d(c, d, f, heading) ==
    [heading |-> heading,
     position |-> VAdd(f.position, VScale(VScale(VecF(heading), F(c.move_speed)), d))]

\* lines 219-245 of particle_step
integrate_2d(self, c, d, f) ==
    advance_2d(c, d, f, rotate(rotation_2d(self, c, d, f), f.heading))

\* the move branch of particle_step (lines 249-251)
commit_2d(self, c, d, i, cand, pos) ==
    [self EXCEPT !.back.medium.data[pos] = @ + deposit(c, d),
                 !.back.slime[i] = [position |-> cand.position, heading |-> cand.heading]]

\* lines 248-254 of particle_step
resolve_2d(self, c, d, i, cand, pos, fresh) ==
    IF pos # None THEN commit_2d(self, c, d, i, cand, pos[1]) ELSE respawn(self, i, fresh)

\* the 2D SlimeFactory::new
SlimeFactory_new_2d(w, h) == [x |-> w, y |-> h]

\* the rng draws one call of the 2D SlimeFactory::slime consumes: x, y from
\* Uniform(0, extent) and angle from Uniform(0, TAU), in quarter turns
Draws2D(fac) ==
    { [x |-> SpawnCoord(fac.x, r), y |-> SpawnCoord(fac.y, r), angle |-> (r + 2) % 4] :
      r \in 0..(RngDraws - 1) }

NoDraw2D == [x |-> 0, y |-> 0, angle |-> 0]

SlimeFactory_slime_2d(draw) ==
    [position |-> <<F(draw.x), F(draw.y)>>, heading |-> unit_circ(draw.angle)]

\* the 2D SlimeSim::new(width, height, n_particles, rng)
SlimeSim_new_2d(w, h, n, draws) ==
    cloned([slime |-> [i \in 1..n |-> SlimeFactory_slime_2d(draws[i])],
            medium |-> Array2D_new(w, h)],
           SlimeFactory_new_2d(w, h))

\* the (cfg, dt) pairs the 2D step is called with (dt finite)
Calls2D ==
    { [cfg |-> SlimeConfig(1, 1, 0, UNIT, UNIT, UNIT, 0), dt |-> F(UNIT)],
      [cfg |-> SlimeConfig(1, 1, Quarter, UNIT, UNIT, UNIT, Half), dt |-> F(UNIT)],
      [cfg |-> SlimeConfig(2, 2, 0, UNIT, UNIT, 2 * UNIT, 0), dt |-> F(Half)],
      [cfg |-> SlimeConfig(2, 2, Half, UNIT, UNIT, 2 * UNIT, Half), dt |-> F(Half)] }

Init2D ==
    \E n \in 1..NParticles :
    \E draws \in [1..n -> Draws2D(SlimeFactory_new_2d(Width2D, Height2D))] :
    \E sim \in {SlimeSim_new_2d(Width2D, Height2D, n, draws)} :
        /\ front = sim.front
        /\ back = sim.back
        /\ factory = sim.factory
        /\ pc = "idle"
        /\ idx = 0
        /\ cfg = NoCall.cfg
        /\ dt = NoCall.dt
        /\ ticks = 0
        /\ shown = [tick |-> 0, frame |-> sim.front]
        /\ probe = NoProbe
        /\ born = <<>>
        /\ hist = [deposit_ok |-> TRUE, decay_ok |-> TRUE, diffusion_ok |-> TRUE]
        /\ record = None

Step2D == StepWith(Calls2D)

\* self.diffuse_step(cfg, dt)
DiffuseStep ==
    /\ pc = "medium"
    /\ \E r \in {diffuse_step(Self, cfg, dt)} :
          /\ front' = r.front
          /\ back' = r.back
          /\ pc' = after(r, 0)
    /\ idx' = 1
    /\ UNCHANGED <<factory, cfg, dt, ticks, shown, probe, born, hist, record>>

\* one iteration of the loop of self.particle_step(cfg, dt, rng)
ParticleStep ==
    /\ pc = "particles"
    /\ \E cand \in {integrate_2d(Self, cfg, dt, front.slime[idx])} :
       \E pos \in {sample_array_vect_2d(back.medium, cand.position)} :
       \E draw \in IF pos = None THEN Draws2D(factory) ELSE {NoDraw2D} :
       \E r \in {resolve_2d(Self, cfg, dt, idx, cand, pos, SlimeFactory_slime_2d(draw))} :
          /\ front' = r.front
          /\ back' = r.back
          /\ pc' = after(r, idx)
          /\ probe' = [i |-> idx, arg |-> cand.position, res |-> pos]
    /\ idx' = idx + 1
    /\ UNCHANGED <<factory, cfg, dt, ticks, shown, born, hist, record>>

Next2D == Step2D \/ DiffuseStep \/ ParticleStep \/ Swap \/ Frame

Spec2D == Init2D /\ [][Next2D]_vars

(* ------------------------------ claims -------------------------------- *)

Idle == pc = "idle"

\* the buffer the current step writes, or the last step wrote
Written == IF Idle THEN front ELSE back

\* p lies in the grid of medium m: finite and 0 <= coordinate < extent on every axis
InsideGrid(p, m) ==
    /\ \A a \in 1..3 : is_finite(p[a]) /\ p[a].v >= 0
    /\ p[1].v < m.width * UNIT
    /\ p[2].v < m.height * UNIT
    /\ p[3].v < m.length * UNIT

\* C1: in every state the front and the back population hold exactly the
\* n_particles particles the engine was created with
PopulationSizeFixed ==
    /\ Len(front.slime) = NParticles
    /\ Len(back.slime) = NParticles

\* a step has completed in which a particle was respawned
RespawnedInCompletedStep ==
    /\ Idle
    /\ ticks >= 1
    /\ \E i \in 1..NParticles : born[i].tick = ticks

\* C2: in every state (from construction on) every agent of the front
\* population has a finite position with 0 <= coordinate < extent on every axis
AgentsInsideGrid ==
    \A i \in DOMAIN front.slime : InsideGrid(front.slime[i].position, front.medium)

\* a step has completed whose last agent had left the grid at a finite position
LeftGridAndRespawned ==
    /\ Idle
    /\ probe.i = NParticles
    /\ probe.res = None
    /\ \A a \in 1..3 : is_finite(probe.arg[a])
    /\ InsideGrid(front.slime[probe.i].position, front.medium)

\* C3: from the start of a step until its swap no cell of the front medium
\* and no particle of the front population changes
FrontUntouchedDuringStep == [][pc # "swap" => front' = front]_vars

\* both passes of a second step have written the back buffers
BackWrittenBeforeSwap ==
    /\ pc = "swap"
    /\ ticks >= 1
    /\ back.medium # front.medium
    /\ back.slime # front.slime

\* C4: the swap exchanges medium and population together, so that the frame
\* shown after a step is exactly what the step wrote to the back buffers, and
\* a frame read between two steps equals the front state until the next step
FrameSwapsTogether ==
    /\ [](Idle /\ shown.tick = ticks => shown.frame = front)
    /\ [][/\ pc = "swap" => /\ front'.medium = back.medium
                              /\ front'.slime = back.slime
                              /\ back' = front
                              /\ pc' = "idle"
          /\ Idle /\ pc' = "idle" => front' = front]_vars

\* a frame read after a step shows a new medium and a new population
NewFrameShown ==
    /\ Idle
    /\ ticks >= 1
    /\ shown.tick = ticks
    /\ shown.frame.medium # back.medium
    /\ shown.frame.slime # back.slime

\* the outcome of the loop iteration that has just run, read from the bounds
\* check it made: f is the front particle, b the back slot
MovedOrRespawned(f, b) ==
    /\ probe.res # None =>
          /\ b.position = probe.arg
          /\ b.position = advance(cfg, dt, f, b.heading).position
          /\ b.origin = f.origin
          /\ b.age = f.age + 1
    /\ probe.res = None =>
          /\ b.age = 0
          /\ b.origin = b.position
          /\ InsideGrid(b.position, back.medium)
    /\ b.age = 0 <=> probe.res = None

\* C5: every loop iteration either commits (new position, new heading, origin
\* unchanged, age + 1) when the new position maps to a cell, or else respawns
\* (age 0, origin = in-grid spawn position); so after every step age is the
\* number of ticks since the last respawn and origin is where this life began
MoveOrRespawnOnly ==
    /\ pc \in {"particles", "swap"} /\ idx > 1 =>
          MovedOrRespawned(front.slime[idx - 1], back.slime[idx - 1])
    /\ Idle => \A i \in DOMAIN front.slime :
                  /\ front.slime[i].age = ticks - born[i].tick
                  /\ front.slime[i].origin = born[i].pos

\* after two steps one agent has moved twice and another one was respawned
OneAgedOneRespawned ==
    /\ Idle
    /\ ticks = 2
    /\ \E i, j \in 1..NParticles :
          /\ front.slime[i].age = 2
          /\ front.slime[i].position # front.slime[i].origin
          /\ born[j].tick >= 1

\* the integer part n of the fixed-point value v
IntegerPart(v, n) == n * UNIT <= v /\ v < (n + 1) * UNIT

\* C6: the bounds check of a new position yields an index exactly when every
\* coordinate is finite and in [0, extent); the index is then the integer part
\* of each coordinate and a cell of the grid; otherwise (out of bounds or not
\* finite) the agent is respawned inside the grid
SampleIffFiniteInBounds ==
    probe.i > 0 =>
        /\ probe.res # None <=> InsideGrid(probe.arg, Written.medium)
        /\ probe.res # None =>
              /\ \A a \in 1..3 : IntegerPart(probe.arg[a].v, probe.res[1][a])
              /\ probe.res[1] \in DOMAIN Written.medium.data
        /\ probe.res = None =>
              /\ Written.slime[probe.i].age = 0
              /\ InsideGrid(Written.slime[probe.i].position, Written.medium)

\* a new position with a NaN coordinate was met and the agent respawned
NonFiniteRespawned ==
    /\ probe.i > 0
    /\ \E a \in 1..3 : probe.arg[a].k = "nan"
    /\ probe.res = None
    /\ Written.slime[probe.i].age = 0

NonNegative(m) == \A pos \in DOMAIN m.data : m.data[pos] >= 0

\* C7 as stated: with every deposit non-negative and every decay rate <= 1 no
\* cell is ever negative
NonNegativeGivenDepositAndDecay ==
    hist.deposit_ok /\ hist.decay_ok => NonNegative(front.medium) /\ NonNegative(back.medium)

\* C7 amended: with every deposit non-negative, every decay rate <= 1 and every
\* diffusion rate in [0, 1], no cell of either medium is ever negative
NonNegativeGivenRatesInRange ==
    hist.deposit_ok /\ hist.decay_ok /\ hist.diffusion_ok =>
        NonNegative(front.medium) /\ NonNegative(back.medium)

\* two steps with rates in range have run and the second relaxed a field that
\* held a deposit
RelaxedDepositedField ==
    /\ Idle
    /\ ticks = 2
    /\ hist.deposit_ok /\ hist.decay_ok /\ hist.diffusion_ok
    /\ \E pos \in DOMAIN back.medium.data : back.medium.data[pos] > 0
    /\ \E pos \in DOMAIN front.medium.data :
          front.medium.data[pos] > 0 /\ front.medium.data[pos] # back.medium.data[pos]

Abs(n) == IF n < 0 THEN -n ELSE n

UniformField(m) == \A p \in DOMAIN m.data : \A q \in DOMAIN m.data : m.data[p] = m.data[q]

\* where f gets to by moving move_speed * dt along its heading without turning
Straight(f) == VAdd(f.position, VScale(VecF(f.heading), F(Mul(cfg.move_speed, dt.v))))

InsideGrid2D(p, m) ==
    /\ \A a \in 1..2 : is_finite(p[a]) /\ p[a].v >= 0
    /\ p[1].v < m.width * UNIT
    /\ p[2].v < m.height * UNIT

\* the agents of the previous tick whose straight move ends inside cell pos
Landing(pos) ==
    { i \in 1..Len(back.slime) :
        /\ InsideGrid2D(Straight(back.slime[i]), back.medium)
        /\ IntegerPart(Straight(back.slime[i])[1].v, pos[1])
        /\ IntegerPart(Straight(back.slime[i])[2].v, pos[2]) }

\* the previous tick is the scenario of the 2D walkthrough: a 10 x 10 field of
\* zeros, one agent at (5, 5) heading (1, 0), move_speed = dt = deposit_rate = 1
Walkthrough ==
    /\ back.medium.width = 10 /\ back.medium.height = 10
    /\ \A pos \in DOMAIN back.medium.data : back.medium.data[pos] = 0
    /\ Len(back.slime) = 1
    /\ back.slime[1] = [position |-> <<F(5 * UNIT), F(5 * UNIT)>>, heading |-> <<1, 0>>]
    /\ cfg.move_speed = UNIT /\ cfg.deposit_rate = UNIT /\ dt = F(UNIT)

\* C9: a 2D step with decay = 0 and diffusion = 0 on a field without gradient
\* leaves every agent whose straight move stays in the grid on its heading,
\* move_speed * dt further along it, and adds deposit_rate * dt to a cell once
\* per agent that lands in it and nothing to any other cell; in the walkthrough
\* the agent ends at (6, 5), cell (6, 5) holds 1.0 and every other cell 0.0
StraightMoveOnUniformField ==
    Idle /\ ticks >= 1 /\ cfg.decay = 0 /\ cfg.diffusion = 0 /\ UniformField(back.medium) =>
        /\ \A i \in 1..Len(back.slime) :
              InsideGrid2D(Straight(back.slime[i]), back.medium) =>
                  front.slime[i] = [position |-> Straight(back.slime[i]),
                                    heading |-> back.slime[i].heading]
        /\ \A pos \in DOMAIN front.medium.data :
              front.medium.data[pos] =
                  back.medium.data[pos]
                      + Cardinality(Landing(pos)) * Mul(cfg.deposit_rate, dt.v)
        /\ Walkthrough =>
              /\ front.slime[1].position = <<F(6 * UNIT), F(5 * UNIT)>>
              /\ \A pos \in DOMAIN front.medium.data :
                    front.medium.data[pos] = IF pos = <<6, 5>> THEN UNIT ELSE 0

\* the walkthrough step has completed
WalkthroughStepped ==
    /\ Idle /\ ticks = 1 /\ cfg.decay = 0 /\ cfg.diffusion = 0
    /\ Walkthrough
    /\ front.medium.data[<<6, 5>>] = UNIT


\* C11 as stated: an engine built with a zero extent or with zero agents never
\* panics, neither in construction nor in a step, and an engine without agents
\* shows an empty population in every frame
DegenerateNeverFatal ==
    /\ pc # "panic"
    /\ Len(front.slime) = 0 => Len(shown.frame.slime) = 0


\* the frames of the record, none when nothing is recorded
Frames == IF record = None THEN <<>> ELSE record[1].frames

\* C12: with recording on, every step appends exactly one snapshot, so the
\* record holds one frame per step entered, in tick order (frame k is the front
\* population the k-th step started from); a frame holds the agents only
\* (position, heading, origin, age), as many as the population; and no step
\* changes a frame once it is recorded
OneFramePerStep ==
    /\ [](record # None =>
            /\ Len(Frames) = IF Idle THEN ticks ELSE ticks + 1
            /\ \A k \in 1..Len(Frames) :
                  /\ DOMAIN Frames[k] = {"slime"}
                  /\ Len(Frames[k].slime) = Len(front.slime)
                  /\ \A i \in 1..Len(Frames[k].slime) :
                        DOMAIN Frames[k].slime[i] = {"position", "heading", "origin", "age"}
            /\ ~Idle => Frames[ticks + 1].slime = front.slime
            /\ Idle /\ ticks >= 1 => Frames[ticks].slime = back.slime)
    /\ [][/\ Len(Frames') >= Len(Frames)
          /\ \A k \in 1..Len(Frames) : Frames'[k] = Frames[k]
          /\ record # None /\ Idle /\ ~Idle' => Len(Frames') = Len(Frames) + 1]_vars

\* two steps were recorded and the two frames differ
TwoFramesRecorded ==
    /\ record # None /\ Idle /\ ticks = 2
    /\ Len(Frames) = 2
    /\ Frames[1] # Frames[2]


\* the engine as the last step found it: after the swap the back buffers hold
\* the front state the step read
Before == [front |-> back, back |-> back]

\* agent i was moved, not respawned, by the last step
Committed(i) == front.slime[i].age = back.slime[i].age + 1

\* the sensor rotation about `axis` of the last step
Sensor(axis) == from_axis_angle(axis, F(cfg.sensor_spread))

\* the turn about `axis` of the last step
Turn(axis) == from_axis_angle(axis, FMul(F(cfg.turn_speed), dt))

\* the left, center and right samples agent i took about `axis` in the last step
Left(i, axis) == sample(Before, cfg, back.slime[i], Sensor(axis))
Center(i) == sample(Before, cfg, back.slime[i], UnitQuaternion_identity)
Right(i, axis) == sample(Before, cfg, back.slime[i], inverse(Sensor(axis)))

\* one of the three samples about `axis` fell outside the grid
OffGrid(i, axis) == Left(i, axis) = None \/ Center(i) = None \/ Right(i, axis) = None

\* C13 as stated: an agent that was moved by the last step and had a sample
\* outside the grid about each sensing axis kept its heading
OffGridGoesStraight ==
    Idle /\ ticks >= 1 =>
        \A i \in 1..Len(front.slime) :
            Committed(i) /\ OffGrid(i, "x") /\ OffGrid(i, "y") =>
                front.slime[i].heading = back.slime[i].heading


\* the turn the steering table gives agent i about `axis` when its three
\* samples are in the grid
Table(i, axis) ==
    IF Left(i, axis)[1] > Center(i)[1] /\ Center(i)[1] > Right(i, axis)[1]
    THEN Turn(axis)
    ELSE IF Left(i, axis)[1] < Center(i)[1] /\ Center(i)[1] < Right(i, axis)[1]
         THEN inverse(Turn(axis))
         ELSE UnitQuaternion_identity

\* the rotations the steering can choose about `axis`
Turns(axis) == {Turn(axis), inverse(Turn(axis)), UnitQuaternion_identity}

\* rot applied to heading h
Turned(rot, h) == MatMul(rot, h)

\* C14: for an agent moved by the last step, a sensing axis whose three samples
\* are in the grid contributes the turn of the table (left > center > right:
\* the turn by turn_speed * dt; left < center < right: its inverse; otherwise
\* none); the two turns are inverses of each other; the new heading is the yaw
\* decision composed with the pitch decision applied to the old heading; and a
\* turn by as much as the sensor spread moves the agent where its left sensor
\* pointed
SteeringFollowsTable ==
    Idle /\ ticks >= 1 =>
        \A i \in 1..Len(front.slime) :
            Committed(i) =>
                /\ \A axis \in {"x", "y"} :
                      Turned(Turn(axis), inverse(Turn(axis))) = UnitQuaternion_identity
                /\ ~OffGrid(i, "x") =>
                      \E p \in Turns("y") :
                          front.slime[i].heading =
                              Turned(Table(i, "x"), Turned(p, back.slime[i].heading))
                /\ ~OffGrid(i, "y") =>
                      \E y \in Turns("x") :
                          front.slime[i].heading =
                              Turned(y, Turned(Table(i, "y"), back.slime[i].heading))
                /\ ~OffGrid(i, "x") /\ ~OffGrid(i, "y") =>
                      front.slime[i].heading =
                          Turned(Table(i, "x"), Turned(Table(i, "y"), back.slime[i].heading))
                /\ /\ ~OffGrid(i, "x") /\ ~OffGrid(i, "y")
                   /\ Table(i, "x") = Turn("x") /\ Table(i, "y") = UnitQuaternion_identity
                   /\ Turn("x") = Sensor("x")
                   => front.slime[i].position =
                          VAdd(back.slime[i].position,
                               VScale(VScale(Tip(Turned(Sensor("x"), back.slime[i].heading)),
                                             F(cfg.move_speed)), dt))

\* an agent whose samples were all in the grid turned about both axes and moved
BothAxesTurned ==
    /\ Idle /\ ticks >= 1
    /\ \E i \in 1..Len(front.slime) :
          /\ Committed(i)
          /\ ~OffGrid(i, "x") /\ ~OffGrid(i, "y")
          /\ Table(i, "x") = Turn("x")
          /\ Table(i, "y") = inverse(Turn("y"))
          /\ front.slime[i].heading # back.slime[i].heading


\* the agents the last step moved into cell pos
Arrived(pos) ==
    { i \in 1..Len(front.slime) :
        /\ Committed(i)
        /\ \A a \in 1..3 : IntegerPart(front.slime[i].position[a].v, pos[a]) }

\* C15: after a step every cell of the front medium holds its relaxed value,
\* computed from the front medium the step started from, plus deposit_rate * dt
\* once per agent the step moved into the cell; a respawned agent adds nothing
DepositsAddToRelaxed ==
    Idle /\ ticks >= 1 =>
        \A pos \in DOMAIN front.medium.data :
            front.medium.data[pos] =
                decayed(back.medium, cfg, pos) + Cardinality(Arrived(pos)) * deposit(cfg, dt)

\* the second step moved both agents into one cell that already held
\* concentration, with a positive deposit
DepositsAccumulated ==
    /\ Idle /\ ticks = 2
    /\ deposit(cfg, dt) > 0
    /\ \E pos \in DOMAIN front.medium.data :
          /\ Cardinality(Arrived(pos)) = 2
          /\ decayed(back.medium, cfg, pos) > 0


\* the relaxation pass of the current step has run and no agent has been
\* processed yet: back.medium holds the relaxed front medium
JustRelaxed == pc = "particles" /\ idx = 1

RECURSIVE SumOf(_, _)
\* the sum of the values of m over the cells S
SumOf(m, S) ==
    IF S = {} THEN 0
    ELSE LET q == CHOOSE q \in S : TRUE IN m.data[q] + SumOf(m, S \ {q})

\* the cells of m that are pos or differ from it by one along exactly one axis
AxisNeighbours(m, pos) ==
    { q \in DOMAIN m.data :
        Cardinality({a \in DOMAIN pos : q[a] # pos[a]}) <= 1
        /\ \A a \in DOMAIN pos : Abs(q[a] - pos[a]) <= 1 }

\* the cells of m that differ from pos by at most one along every axis
BlockNeighbours(m, pos) ==
    { q \in DOMAIN m.data : \A a \in DOMAIN pos : Abs(q[a] - pos[a]) <= 1 }

\* keep * (the value of pos blended by t toward the average of m over S)
Relaxed(m, pos, S, keep, t) ==
    Mul(keep, Mul(UNIT - t, m.data[pos]) + Mul(t, RoundDiv(SumOf(m, S), Cardinality(S))))

\* C16 as stated, 2D variant: the relaxed value of a cell is (1 - decay * dt)
\* times the blend, by diffusion_rate, of its value toward the average over the
\* cell and its axis-aligned neighbours inside the grid
RelaxedOverAxisNeighbours ==
    JustRelaxed =>
        \A pos \in DOMAIN back.medium.data :
            back.medium.data[pos] =
                Relaxed(front.medium, pos, AxisNeighbours(front.medium, pos),
                        UNIT - Mul(cfg.decay, dt.v), cfg.diffusion)

\* C16 amended: in the 2D variant the relaxed value of a cell is
\* (1 - decay * dt) times the blend, by diffusion * dt, of its value toward the
\* average over the in-grid cells of the 3 x 3 block around it (the cell, its
\* axis-aligned and its diagonal neighbours); in the 3D variant it is
\* (1 - decay) times the blend, by diffusion, toward the average over the cell
\* and its in-grid axis-aligned neighbours (up to 6); the average is over at
\* least one sample and never over a cell across the boundary
RelaxedOverBlockIn2D ==
    JustRelaxed =>
        \A pos \in DOMAIN back.medium.data :
            IF "length" \in DOMAIN front.medium
            THEN /\ back.medium.data[pos] =
                        Relaxed(front.medium, pos, AxisNeighbours(front.medium, pos),
                                UNIT - cfg.decay, cfg.diffusion)
                 /\ neighbourhood(front.medium, pos, Len(off))[2]
                        = Cardinality(AxisNeighbours(front.medium, pos))
            ELSE /\ back.medium.data[pos] =
                        Relaxed(front.medium, pos, BlockNeighbours(front.medium, pos),
                                UNIT - Mul(cfg.decay, dt.v), Mul(cfg.diffusion, dt.v))
                 /\ neighbourhood_2d(front.medium, pos, Len(off_2d))[2]
                        = Cardinality(BlockNeighbours(front.medium, pos))
                 /\ Cardinality(BlockNeighbours(front.medium, pos)) \in {4, 6, 9}

\* a relaxation gave concentration to a cell that was empty and whose
\* axis-aligned neighbours were all empty: it came from a diagonal neighbour
DiffusedDiagonally ==
    /\ JustRelaxed
    /\ \E pos \in DOMAIN back.medium.data :
          /\ back.medium.data[pos] > 0
          /\ \A q \in AxisNeighbours(front.medium, pos) : front.medium.data[q] = 0


\* the loop body of step_particles run for agent i on `self`, a respawn taking
\* `draw`
Processed(self, i, cand, draw) ==
    resolve(self, cfg, dt, i, cand, sample_array_vect(self.back.medium, cand.position),
            SlimeFactory_slime(draw))

ProcessAgent(self, i, draw) ==
    Processed(self, i, integrate(self, cfg, dt, self.front.slime[i]), draw)

RECURSIVE InOrder(_, _, _, _)
\* `self` after the first n agents of `order` were processed, agent i taking
\* draws[i] if it respawns
InOrder(self, order, draws, n) ==
    IF n = 0 THEN self
    ELSE ProcessAgent(InOrder(self, order, draws, n - 1), order[n], draws[order[n]])

\* the orders in which the agents can be visited
Orders(n) == { o \in [1..n -> 1..n] : \A i \in 1..n : \E j \in 1..n : o[j] = i }

\* the cells in which medium m differs from medium k
Changed(m, k) == { pos \in DOMAIN m.data : m.data[pos] # k.data[pos] }

\* C17: once the relaxation pass has run, processing one agent leaves the front
\* buffers and every other agent's back slot as they were and changes at most
\* one cell of the back medium, by the deposit; and with the respawn draw of
\* each agent fixed, processing the agents in any order gives the buffers that
\* the order of the code gives
AnyOrderSameStep ==
    JustRelaxed =>
        /\ \A i \in 1..Len(front.slime) : \A draw \in Draws(factory) :
           \A r \in {ProcessAgent(Self, i, draw)} :
           \A cells \in {Changed(r.back.medium, back.medium)} :
              /\ r.front = front
              /\ \A j \in 1..Len(front.slime) \ {i} : r.back.slime[j] = back.slime[j]
              /\ Cardinality(cells) <= 1
              /\ \A pos \in cells :
                    r.back.medium.data[pos] = back.medium.data[pos] + deposit(cfg, dt)
        /\ \A draws \in [1..Len(front.slime) -> Draws(factory)] :
           \A inCodeOrder \in {InOrder(Self, [i \in 1..Len(front.slime) |-> i], draws,
                                       Len(front.slime))} :
           \A o \in Orders(Len(front.slime)) :
              InOrder(Self, o, draws, Len(front.slime)) = inCodeOrder

\* the relaxation pass has run and the first agent is about to deposit in a cell
\* that a sensor of the second agent reads
DepositUnderSensor ==
    /\ JustRelaxed
    /\ Len(front.slime) = 2
    /\ deposit(cfg, dt) > 0
    /\ \E draw \in Draws(factory) :
          \E pos \in Changed(ProcessAgent(Self, 1, draw).back.medium, back.medium) :
          \E rot \in {from_axis_angle("x", F(cfg.sensor_spread)),
                      inverse(from_axis_angle("x", F(cfg.sensor_spread))),
                      UnitQuaternion_identity} :
              sample_array_vect(back.medium,
                  VAdd(front.slime[2].position,
                       VScale(Tip(MatMul(rot, front.slime[2].heading)),
                              F(cfg.sample_dist)))) = Some(pos)


\* back buffers of the dimensions of b that hold nothing of any earlier tick:
\* every cell -1.0, every slot an agent that never existed
Scrubbed(b) ==
    [slime |-> [i \in 1..Len(b.slime) |->
                   [position |-> <<NaN, NaN, NaN>>, origin |-> <<NaN, NaN, NaN>>,
                    heading |-> NaNRot, age |-> 0 - 1]],
     medium |-> [b.medium EXCEPT !.data = [pos \in DOMAIN b.medium.data |-> 0 - UNIT]]]

\* the two media have the same dimensions
SameDimensions(m, k) ==
    /\ m.width = k.width /\ m.height = k.height /\ m.length = k.length
    /\ DOMAIN m.data = DOMAIN k.data

\* C18: in every state the front and the back buffers have the same grid
\* dimensions and the same population length; and the front state a step
\* leaves is the one the same step computes from the front state it started
\* from (now in the back buffers), the configuration, dt and some respawn draws
\* when the back buffers are scrubbed first: nothing the back buffers held
\* before the step reaches the frame
FrameIgnoresStaleBack ==
    /\ SameDimensions(front.medium, back.medium)
    /\ Len(front.slime) = Len(back.slime)
    /\ Idle /\ ticks >= 1 =>
          \A relaxed \in {step_medium([front |-> back, back |-> Scrubbed(back)], cfg)} :
          \E draws \in [1..Len(front.slime) -> Draws(factory)] :
              InOrder(relaxed, [i \in 1..Len(front.slime) |-> i], draws,
                      Len(front.slime)).back = front

\* two steps have run, so the last one wrote over buffers that held the state
\* of two ticks earlier; it moved one agent, respawned the other and changed
\* the medium
StaleBackOverwritten ==
    /\ Idle /\ ticks = 2
    /\ front.medium # back.medium
    /\ \E i \in 1..Len(front.slime) : Committed(i)
    /\ \E i \in 1..Len(front.slime) : ~Committed(i)

====
